---------------------------- MODULE Spec2Model ----------------------------
(***************************************************************************)
(* Model of clickhouse_event_checker.py: the ClickHouse fetcher with its    *)
(* persisted row-count watermark, the sqlite cache of pending trials, the   *)
(* retrying HTTP caller and the pass order of main().                       *)
(*                                                                         *)
(* Time is counted in hours.  The warehouse is the filtered view of         *)
(* analytics.appsflyer_export that both queries select from (media_source   *)
(* 'Popunder', the four event names); it only grows.  The sqlite store is   *)
(* used by one process at a time, so its commits succeed.                   *)
(*                                                                         *)
(* Spec is main() run again and again by the scheduler; SpecWide is the     *)
(* same over one more warehouse row; SpecWeek the same with a week between  *)
(* two runs; FairSpec adds that runs keep being started and finished;       *)
(* SpecCall steps one requests_call attempt by attempt; SpecRemove is one   *)
(* remove_trials_from_db on any table.                                      *)
(***************************************************************************)
EXTENDS Integers, Sequences, FiniteSets, TLC

\* ------------------------------------------------------------- bounds
MaxRows == 2          \* rows the warehouse view may come to hold
MaxTime == 1          \* last hour of the clock

\* ---------------------------------------------------------- constants
RETRIES == 10         \* cfg.RETRIES
Hour    == 1          \* datetime('now', '-1 hour')
Week    == 7 * 24 * Hour

None == "None"

\* r = None and error = None, as values of the records r and error hold
NoResponse == [status |-> None, attempt |-> 0]
NoError    == [kind |-> None, attempt |-> 0]

Subs == {"s1", "s2"}

EventNames == {"install", "af_start_trial", "af_subscribe", "trial_renewal_cancelled"}

\* What one attempt of requests.request + raise_for_status can do.
ErrorKinds == {"HTTPError", "ConnectionError", "Timeout", "RequestException"}

AttemptOutcomes == {"ok"} \cup ErrorKinds

VARIABLES
    warehouse,          \* rows of the filtered warehouse view, in arrival order
    json_file,          \* var_storage.json: the persisted prev_rows_number
    prev_rows_number,   \* ClickHouseConnector.prev_rows_number of the current run
    cachetab,           \* the sqlite table, in rowid order
    now,                \* wall clock
    pc,                 \* position of main()
    i,                  \* index of the row the current pass is at
    events_df,          \* the DataFrame fetch_new_events returned
    df,                 \* af_sub1 column of get_trials_from_db's DataFrame
    sent,               \* outbound requests of the current run, in order
    result,             \* (response, error) of the last requests_call of the run
    dwh_ops,            \* warehouse and file operations of the current run
    cancelled,          \* history: subscribers whose pending trial a cancel removed
    call                \* locals of one requests_call, stepped attempt by attempt

vars == <<warehouse, json_file, prev_rows_number, cachetab, now, pc, i,
          events_df, df, sent, result, dwh_ops, cancelled, call>>

mainvars == <<warehouse, json_file, prev_rows_number, cachetab, now, pc, i,
              events_df, df, sent, result, dwh_ops, cancelled>>

Range(s) == {s[k] : k \in 1..Len(s)}

\* ------------------------------------------------- requests_call

CallInit ==
    [retry |-> 0, r |-> NoResponse, error |-> NoError, slept |-> 0,
     last |-> None, pc |-> "loop"]

\* One iteration of the for loop: the try body and the except clause taken.
Attempt(c, out) ==
    IF out = "ok"
    THEN [c EXCEPT !.retry = @ + 1,
                   !.r = [status |-> "ok", attempt |-> c.retry + 1],
                   !.last = out,
                   !.pc = "returned"]
    ELSE [c EXCEPT !.retry = @ + 1,
                   !.r = IF out = "HTTPError"
                         THEN [status |-> "error", attempt |-> c.retry + 1]
                         ELSE @,
                   !.error = [kind |-> out, attempt |-> c.retry + 1],
                   !.slept = @ + 1,
                   !.last = out]

\* for retry in range(retries): no iteration is left.
LoopExhausted_OneShort(c) == c.retry >= RETRIES - 1

LoopExhausted(c) == c.retry >= RETRIES

\* return r, error after the loop
ReturnAfterLoop_Raises(c) == [c EXCEPT !.pc = "raised"]

ReturnAfterLoop(c) == [c EXCEPT !.pc = "returned"]

\* The loop from locals c on: attempt after attempt until one returns or none
\* is left.  (The locals after an attempt are bound to a variable, so that
\* they are computed once.)
RECURSIVE RunCall(_, _)
RunCall(c, outs) ==
    IF c.pc = "returned" THEN c
    ELSE IF LoopExhausted(c) THEN ReturnAfterLoop(c)
    ELSE CHOOSE end \in {RunCall(nxt, outs) : nxt \in {Attempt(c, outs[c.retry + 1])}} : TRUE

\* The whole call, given what each attempt meets.
requests_call(outs) == RunCall(CallInit, outs)

\* k failures of one kind, then success.
FailsThenOk(k, kind) == [n \in 1..RETRIES |-> IF n <= k THEN kind ELSE "ok"]

\* The endpoint behaviours main() is run against: it answers at once, after one
\* failed attempt, after all but one, or never.  (Every mix of outcomes is
\* stepped through attempt by attempt under SpecCall.)
CallOutcomes ==
    {FailsThenOk(k, kind) : k \in {0, 1, RETRIES - 1, RETRIES},
                            kind \in {"HTTPError", "ConnectionError"}}

\* ------------------------------------------------- ClickHouseConnector

Row(t, n, s) == [event_time |-> t, event_name |-> n, af_sub1 |-> s]

\* if dev == 0: return pd.DataFrame()
NothingNew_Never(dev) == FALSE

NothingNew(dev) == dev = 0

\* json.dump({"prev_rows_number": cnt}, file)
Watermark_Dev(cnt, dev) == dev

Watermark(cnt, dev) == cnt

\* query_cnt: SELECT count()
QueryCnt(wh) == Len(wh)

\* query_str: ORDER BY event_time DESC LIMIT dev.  The index sequences the
\* query may return: rows of equal event_time come in any order.
QueryStr(wh, dev) ==
    LET n == Len(wh)
        k == IF dev < n THEN dev ELSE n
    IN  {q \in [1..k -> 1..n] :
            /\ \A a, b \in 1..k : a < b => q[a] # q[b]
            /\ \A a, b \in 1..k : a < b => wh[q[a]].event_time >= wh[q[b]].event_time
            /\ \A a \in 1..k : \A j \in 1..n :
                  j \notin Range(q) => wh[q[a]].event_time >= wh[j].event_time}

\* ------------------------------------------------- EventProcessor

\* self.install, had it been filtered against the cache
install_NotCached ==
    SelectSeq(events_df, LAMBDA e : e.event_name = "install"
                                    /\ ~\E k \in 1..Len(cachetab) :
                                          cachetab[k].af_sub1 = e.af_sub1)

install         == SelectSeq(events_df, LAMBDA e : e.event_name = "install")
trial           == SelectSeq(events_df, LAMBDA e : e.event_name = "af_start_trial")
trial_cancelled == SelectSeq(events_df, LAMBDA e : e.event_name = "trial_renewal_cancelled")
activation      == SelectSeq(events_df, LAMBDA e : e.event_name = "af_subscribe")

HasRow(cache, s) == \E k \in 1..Len(cache) : cache[k].af_sub1 = s

save_trials_to_db_NoCheck(cache, date, e) ==
    Append(cache, [date |-> date, event_time |-> e.event_time,
                   event_name |-> e.event_name, af_sub1 |-> e.af_sub1])

save_trials_to_db(cache, date, e) ==
    IF ~HasRow(cache, e.af_sub1)
    THEN Append(cache, [date |-> date, event_time |-> e.event_time,
                        event_name |-> e.event_name, af_sub1 |-> e.af_sub1])
    ELSE cache

\* DELETE FROM cachetab WHERE af_sub1=:af_sub1
remove_trials_from_db_TrialsOnly(cache, s) ==
    SelectSeq(cache, LAMBDA c : ~(c.af_sub1 = s /\ c.event_name = "af_start_trial"))

remove_trials_from_db(cache, s) ==
    SelectSeq(cache, LAMBDA c : c.af_sub1 # s)

get_trials_from_db_NoDelay(cache, t) ==
    SelectSeq(cache, LAMBDA c : c.event_name = "af_start_trial")

get_trials_from_db(cache, t) ==
    SelectSeq(cache, LAMBDA c : c.event_name = "af_start_trial"
                                /\ c.event_time <= t - Hour)

Column(rows) == [k \in 1..Len(rows) |-> rows[k].af_sub1]

Request(s, status, event) ==
    [cnv_id |-> s, cnv_status |-> status, event |-> event]

\* response, error = self.requests_call(...): what the caller gets back
Returned(c) == [response |-> c.r.status, error |-> c.error.kind]

NoResult == [response |-> None, error |-> None]

\* Where main() is after a requests_call made at `here`: a call that returns
\* leaves the pass where it is, an exception out of it would end the run.
Propagate(c, here) == IF c.pc = "returned" THEN here ELSE "done"

\* main(): the pass that follows pass p.
PassAfter_TrialsFirst(p) ==
    CASE p = "install"    -> "new_trials"
      [] p = "new_trials" -> "cancelled"
      [] p = "cancelled"  -> "activation"
      [] p = "activation" -> "get_trials"
      [] p = "confirmed"  -> "done"

PassAfter(p) ==
    CASE p = "install"    -> "activation"
      [] p = "activation" -> "new_trials"
      [] p = "new_trials" -> "cancelled"
      [] p = "cancelled"  -> "get_trials"
      [] p = "confirmed"  -> "done"

\* The body of the confirmation loop after the call: `continue` on an error,
\* remove_trials_from_db otherwise.
AfterConfirmation_Always(cache, s, error) == remove_trials_from_db(cache, s)

AfterConfirmation(cache, s, error) ==
    IF error # None THEN cache ELSE remove_trials_from_db(cache, s)

\* ------------------------------------------------- initial state

Init ==
    /\ warehouse = << >>
    /\ json_file = 0
    /\ prev_rows_number = 0
    /\ cachetab = << >>
    /\ now = 0
    /\ pc = "idle"
    /\ i = 1
    /\ events_df = << >>
    /\ df = << >>
    /\ sent = << >>
    /\ result = NoResult
    /\ dwh_ops = << >>
    /\ cancelled = {}
    /\ call = CallInit

\* ------------------------------------------------- environment

\* Subscriber ids are arbitrary: they are named in the order they first appear.
Known(wh) == {wh[k].af_sub1 : k \in 1..Len(wh)}

NextSub(wh) ==
    IF "s1" \notin Known(wh) THEN {"s1"} ELSE Subs

\* A row arrives in the warehouse view (between runs: a run reads the view in
\* fetch_new_events only); its event_time is any hour up to now.
Arrive(max) ==
    /\ pc = "idle"
    /\ Len(warehouse) < max
    /\ \E t \in 0..now, n \in EventNames, s \in NextSub(warehouse) :
          warehouse' = Append(warehouse, Row(t, n, s))
    /\ UNCHANGED <<json_file, prev_rows_number, cachetab, now, pc, i,
                   events_df, df, sent, result, dwh_ops, cancelled, call>>

WarehouseInsert == Arrive(MaxRows)

\* An hour passes (between runs: a run decides on the clock once, in
\* get_trials_from_db, so an hour passing within a run is one passing before it).
Tick ==
    /\ pc = "idle"
    /\ now < MaxTime
    /\ now' = now + 1
    /\ UNCHANGED <<warehouse, json_file, prev_rows_number, cachetab, pc, i,
                   events_df, df, sent, result, dwh_ops, cancelled, call>>

\* ------------------------------------------------- main

\* A scheduled run starts: ClickHouseConnector(...) reads the watermark file.
Connect ==
    /\ pc = "idle"
    /\ prev_rows_number' = json_file
    /\ pc' = "fetch"
    /\ UNCHANGED <<warehouse, json_file, cachetab, now, i, events_df, df, sent,
                   result, dwh_ops, cancelled, call>>

\* main() returns and the process ends: nothing of the run but the two files is kept.
Exit ==
    /\ pc = "done"
    /\ pc' = "idle"
    /\ prev_rows_number' = 0
    /\ i' = 1
    /\ events_df' = << >>
    /\ df' = << >>
    /\ sent' = << >>
    /\ result' = NoResult
    /\ dwh_ops' = << >>
    /\ UNCHANGED <<warehouse, json_file, cachetab, now, cancelled, call>>

fetch_new_events ==
    /\ pc = "fetch"
    /\ LET cnt == QueryCnt(warehouse)
           dev == cnt - prev_rows_number
       IN  IF NothingNew(dev)
           THEN /\ events_df' = << >>
                /\ dwh_ops' = <<"count">>
                /\ pc' = "done"
                /\ UNCHANGED json_file
           ELSE \E q \in QueryStr(warehouse, dev) :
                /\ events_df' = [k \in 1..Len(q) |-> warehouse[q[k]]]
                /\ json_file' = Watermark(cnt, dev)
                /\ dwh_ops' = <<"count", "query", "write">>
                /\ pc' = IF Len(q) = 0 THEN "done" ELSE "install"
    /\ UNCHANGED <<warehouse, prev_rows_number, cachetab, now, i, df, sent,
                   result, cancelled, call>>

\* What the watermark file holds when the count command (line 95) or the row
\* query (line 101) raises: the write of lines 102-103 comes after both.
FileAtRaise_WriteFirst(op, cnt, file) == IF op = "query" THEN cnt ELSE file

FileAtRaise(op, cnt, file) == file

\* client.command or client.query raises: nothing in fetch_new_events or in
\* main() catches it, and the process ends.
fetch_new_events_raises ==
    /\ pc = "fetch"
    /\ \E op \in {"count", "query"} :
          /\ op = "query" => ~NothingNew(QueryCnt(warehouse) - prev_rows_number)
          /\ dwh_ops' = IF op = "count" THEN <<"count", "raise">>
                                        ELSE <<"count", "query", "raise">>
          /\ json_file' = FileAtRaise(op, QueryCnt(warehouse), json_file)
    /\ events_df' = << >>
    /\ pc' = "done"
    /\ UNCHANGED <<warehouse, prev_rows_number, cachetab, now, i, df, sent,
                   result, cancelled, call>>

install_requests ==
    /\ pc = "install"
    /\ \/ /\ i <= Len(install)
          /\ sent' = Append(sent, Request(install[i].af_sub1, "install", "event1"))
          /\ \E outs \in CallOutcomes :
                \E c \in {requests_call(outs)} :
                   /\ result' = Returned(c)
                   /\ pc' = Propagate(c, pc)
          /\ i' = i + 1
       \/ /\ i > Len(install)
          /\ pc' = PassAfter(pc)
          /\ i' = 1
          /\ result' = NoResult
          /\ sent' = sent
    /\ UNCHANGED <<warehouse, json_file, prev_rows_number, cachetab, now,
                   events_df, df, dwh_ops, cancelled, call>>

activation_requests ==
    /\ pc = "activation"
    /\ \/ /\ i <= Len(activation)
          /\ sent' = Append(sent, Request(activation[i].af_sub1, "trial_converted", "event4"))
          /\ \E outs \in CallOutcomes :
                \E c \in {requests_call(outs)} :
                   /\ result' = Returned(c)
                   /\ pc' = Propagate(c, pc)
          /\ i' = i + 1
       \/ /\ i > Len(activation)
          /\ pc' = PassAfter(pc)
          /\ i' = 1
          /\ result' = NoResult
          /\ sent' = sent
    /\ UNCHANGED <<warehouse, json_file, prev_rows_number, cachetab, now,
                   events_df, df, dwh_ops, cancelled, call>>

process_new_trials ==
    /\ pc = "new_trials"
    /\ \/ /\ i <= Len(trial)
          /\ cachetab' = save_trials_to_db(cachetab, now, trial[i])
          /\ i' = i + 1
          /\ pc' = pc
       \/ /\ i > Len(trial)
          /\ pc' = PassAfter(pc)
          /\ i' = 1
          /\ cachetab' = cachetab
    /\ UNCHANGED <<warehouse, json_file, prev_rows_number, now, events_df, df,
                   sent, result, dwh_ops, cancelled, call>>

process_cancelled_trials ==
    /\ pc = "cancelled"
    /\ \/ /\ i <= Len(trial_cancelled)
          /\ cachetab' = remove_trials_from_db(cachetab, trial_cancelled[i].af_sub1)
          /\ cancelled' = IF HasRow(cachetab, trial_cancelled[i].af_sub1)
                          THEN cancelled \cup {trial_cancelled[i].af_sub1}
                          ELSE cancelled
          /\ i' = i + 1
          /\ pc' = pc
       \/ /\ i > Len(trial_cancelled)
          /\ pc' = PassAfter(pc)
          /\ i' = 1
          /\ UNCHANGED <<cachetab, cancelled>>
    /\ UNCHANGED <<warehouse, json_file, prev_rows_number, now, events_df, df,
                   sent, result, dwh_ops, call>>

confirmed_trial_requests ==
    \/ /\ pc = "get_trials"
       /\ df' = Column(get_trials_from_db(cachetab, now))
       /\ pc' = IF df' = << >> THEN "done" ELSE "confirmed"
       /\ UNCHANGED <<warehouse, json_file, prev_rows_number, cachetab, now, i,
                      events_df, sent, result, dwh_ops, cancelled, call>>
    \/ /\ pc = "confirmed"
       /\ i <= Len(df)
       /\ sent' = Append(sent, Request(df[i], "trial_started", "event2"))
       /\ \E outs \in CallOutcomes :
             \E c \in {requests_call(outs)} :
                /\ result' = Returned(c)
                /\ pc' = Propagate(c, pc)
       /\ cachetab' = AfterConfirmation(cachetab, df[i], result'.error)
       /\ i' = i + 1
       /\ UNCHANGED <<warehouse, json_file, prev_rows_number, now, events_df, df,
                      dwh_ops, cancelled, call>>
    \/ /\ pc = "confirmed"
       /\ i > Len(df)
       /\ pc' = PassAfter(pc)
       /\ result' = NoResult
       /\ UNCHANGED <<warehouse, json_file, prev_rows_number, cachetab, now, i,
                      events_df, df, sent, dwh_ops, cancelled, call>>

Next ==
    \/ WarehouseInsert
    \/ Tick
    \/ Connect
    \/ fetch_new_events
    \/ fetch_new_events_raises
    \/ install_requests
    \/ activation_requests
    \/ process_new_trials
    \/ process_cancelled_trials
    \/ confirmed_trial_requests
    \/ Exit

Spec == Init /\ [][Next]_vars

\* The same program over a warehouse view of one more row.
WarehouseInsertWide == Arrive(MaxRows + 1)

NextWide ==
    \/ WarehouseInsertWide
    \/ Tick
    \/ Connect
    \/ fetch_new_events
    \/ fetch_new_events_raises
    \/ install_requests
    \/ activation_requests
    \/ process_new_trials
    \/ process_cancelled_trials
    \/ confirmed_trial_requests
    \/ Exit

SpecWide == Init /\ [][NextWide]_vars

\* The same program with a scheduler that may leave a week between two runs
\* (the rows are those of the first hours).
WarehouseInsertEarly == now <= MaxTime /\ WarehouseInsert

WeekPasses ==
    /\ pc = "idle"
    /\ now <= MaxTime
    /\ now' = now + Week
    /\ UNCHANGED <<warehouse, json_file, prev_rows_number, cachetab, pc, i,
                   events_df, df, sent, result, dwh_ops, cancelled, call>>

NextWeek ==
    \/ WarehouseInsertEarly
    \/ Tick
    \/ WeekPasses
    \/ Connect
    \/ fetch_new_events
    \/ fetch_new_events_raises
    \/ install_requests
    \/ activation_requests
    \/ process_new_trials
    \/ process_cancelled_trials
    \/ confirmed_trial_requests
    \/ Exit

SpecWeek == Init /\ [][NextWeek]_vars

\* The scheduler keeps starting runs and every run goes on to its end (main() is
\* at one place at a time, so an enabled step of it stays enabled until taken);
\* the warehouse answers a fetch that keeps being made, and the tracking endpoint
\* a trial_started request that keeps being made.
Answered == confirmed_trial_requests /\ result'.response = "ok"

FairSpec ==
    /\ Spec
    /\ WF_vars(Connect)
    /\ SF_vars(fetch_new_events)
    /\ WF_vars(install_requests)
    /\ WF_vars(activation_requests)
    /\ WF_vars(process_new_trials)
    /\ WF_vars(process_cancelled_trials)
    /\ WF_vars(confirmed_trial_requests)
    /\ WF_vars(Exit)
    /\ SF_vars(Answered)

\* ------------------------------------------------- one remove_trials_from_db

\* The tables the DELETE may be run on: any rows of the cachetab columns.
CacheRows ==
    [date : {0}, event_time : 0..MaxTime, event_name : EventNames, af_sub1 : Subs]

Tables ==
    UNION {[1..n -> CacheRows] : n \in 0..MaxRows}

InitRemove ==
    /\ cachetab \in Tables
    /\ warehouse = << >>
    /\ json_file = 0
    /\ prev_rows_number = 0
    /\ now = 0
    /\ pc = "idle"
    /\ i = 1
    /\ events_df = << >>
    /\ df = << >>
    /\ sent = << >>
    /\ result = NoResult
    /\ dwh_ops = << >>
    /\ cancelled = {}
    /\ call = CallInit

\* remove_trials_from_db(s); df keeps the argument and events_df the table as
\* it was before the call.
RemoveCall ==
    /\ pc = "idle"
    /\ \E s \in Subs :
          /\ cachetab' = remove_trials_from_db(cachetab, s)
          /\ df' = <<s>>
    /\ events_df' = cachetab
    /\ pc' = "removed"
    /\ UNCHANGED <<warehouse, json_file, prev_rows_number, now, i, sent, result,
                   dwh_ops, cancelled, call>>

NextRemove == RemoveCall

SpecRemove == InitRemove /\ [][NextRemove]_vars

\* ------------------------------------------------- one requests_call, attempt by attempt

CallAttempt ==
    /\ call.pc = "loop"
    /\ ~LoopExhausted(call)
    /\ \E out \in AttemptOutcomes : call' = Attempt(call, out)
    /\ UNCHANGED mainvars

CallReturn ==
    /\ call.pc = "loop"
    /\ LoopExhausted(call)
    /\ call' = ReturnAfterLoop(call)
    /\ UNCHANGED mainvars

NextCall == CallAttempt \/ CallReturn

SpecCall == Init /\ [][NextCall]_vars


\* ------------------------------------------------- properties

\* fetch_new_events returns
FetchStep == pc = "fetch" /\ pc' # "fetch" /\ "raise" \notin Range(dwh_ops')

Count(seq, x) == Cardinality({k \in 1..Len(seq) : seq[k] = x})

SameRows(a, b) == \A x \in Range(a) \cup Range(b) : Count(a, x) = Count(b, x)

SentTo(s, status) ==
    \E k \in 1..Len(sent) : sent[k].cnv_id = s /\ sent[k].cnv_status = status

Settled(s) ==
    \E k \in 1..Len(cachetab) :
        /\ cachetab[k].af_sub1 = s
        /\ cachetab[k].event_name = "af_start_trial"
        /\ cachetab[k].event_time + Hour <= now

RowsOf(s, name) ==
    {k \in 1..Len(warehouse) :
        warehouse[k].af_sub1 = s /\ warehouse[k].event_name = name}

\* C1: a requests_call that returns from a successful attempt returns
\* error = None, however many failed attempts came before it in the call.
C1_SuccessReturnsNoError ==
    (call.pc = "returned" /\ call.last = "ok") => call.error = NoError

\* C2: against an endpoint every attempt at which fails, one requests_call makes
\* exactly RETRIES attempts, never more, and returns the error of the last one.
C2_FailingCallMakesRetriesAttempts ==
    /\ call.retry <= RETRIES
    /\ (call.pc = "returned" /\ call.last # "ok") =>
          /\ call.retry = RETRIES
          /\ call.error # NoError
          /\ call.error = [kind |-> call.last, attempt |-> RETRIES]

C2_Witness ==
    call.pc = "returned" /\ call.last \in ErrorKinds /\ call.retry = RETRIES

\* C3: a fetch_new_events that finds the row count equal to prev_rows_number
\* returns an empty DataFrame, issues no row query and leaves the watermark
\* file as it is, in every run in which that is so.
C3_UnchangedCountFetchesNothing ==
    [][(FetchStep /\ QueryCnt(warehouse) = prev_rows_number) =>
          /\ events_df' = << >>
          /\ "query" \notin Range(dwh_ops')
          /\ "write" \notin Range(dwh_ops')
          /\ json_file' = json_file]_vars

C3_Witness ==
    /\ pc = "done"
    /\ dwh_ops = <<"count">>
    /\ events_df = << >>
    /\ json_file = Len(warehouse)
    /\ json_file > 0

\* C4: fetch_new_events writes the watermark file exactly when it returns a
\* non-empty DataFrame, and writes the row count it observed; a fetch that
\* returns nothing leaves the file alone, and nothing else writes it.
C4_WatermarkWrittenIffNonEmpty ==
    [][/\ FetchStep =>
            /\ ("write" \in Range(dwh_ops')) <=> (events_df' # << >>)
            /\ events_df' # << >> => json_file' = QueryCnt(warehouse)
            /\ events_df' = << >> => json_file' = json_file
       /\ json_file' # json_file => FetchStep]_vars

C4_Witness ==
    /\ pc = "install"
    /\ events_df # << >>
    /\ prev_rows_number > 0
    /\ json_file = Len(warehouse)
    /\ json_file > prev_rows_number

\* C5: every fetch_new_events returns exactly the rows that arrived since the
\* last run (those above the watermark), so that no row is skipped and none is
\* returned twice, whatever the event_time of the rows that arrived.
C5_FetchReturnsTheNewRows ==
    [][FetchStep =>
          SameRows(events_df',
                   SubSeq(warehouse, prev_rows_number + 1, Len(warehouse)))]_vars

\* C6: the cache never holds two rows of one (af_sub1, event_name) pair, and a
\* save_trials_to_db for a subscriber that has a row leaves the cache as it is.
C6_Unique ==
    \A a, b \in 1..Len(cachetab) :
        (/\ cachetab[a].af_sub1 = cachetab[b].af_sub1
         /\ cachetab[a].event_name = cachetab[b].event_name) => a = b

C6_AtMostOneRowPerKey ==
    /\ []C6_Unique
    /\ [][(/\ pc = "new_trials"
           /\ i <= Len(trial)
           /\ HasRow(cachetab, trial[i].af_sub1)) => cachetab' = cachetab]_vars

C6_Witness ==
    /\ pc = "new_trials"
    /\ Len(trial) = 2
    /\ i = 3
    /\ trial[1].af_sub1 = trial[2].af_sub1
    /\ Len(cachetab) = 1

\* C7: once a trial_renewal_cancelled row of S has been processed while the
\* trial of S was pending in the cache (S has the one af_start_trial row, and
\* the cancel is not older than it), no trial_started request goes out for S.
C7_NoConfirmationAfterCancel ==
    \A s \in cancelled :
        (/\ Cardinality(RowsOf(s, "af_start_trial")) = 1
         /\ \A a \in RowsOf(s, "af_start_trial") :
               \A b \in RowsOf(s, "trial_renewal_cancelled") :
                  warehouse[b].event_time >= warehouse[a].event_time)
        => ~SentTo(s, "trial_started")

\* C8: a run has, at its end, removed the cache rows of every subscriber with a
\* trial_renewal_cancelled row in the batch and sent a trial_renewal_cancelled
\* notification for each of them.
C8_CancelIsForwarded ==
    pc = "done" =>
        \A k \in 1..Len(trial_cancelled) :
            /\ ~HasRow(cachetab, trial_cancelled[k].af_sub1)
            /\ SentTo(trial_cancelled[k].af_sub1, "trial_renewal_cancelled")

\* C9: a trial_started request goes out for a subscriber only while the cache
\* holds an af_start_trial row of that subscriber whose event_time is at least
\* an hour back.
C9_TrialStartedOnlyWhenSettled ==
    [][(/\ Len(sent') = Len(sent) + 1
        /\ sent'[Len(sent')].cnv_status = "trial_started")
       => Settled(sent'[Len(sent')].cnv_id)]_vars

C9_Witness ==
    /\ pc = "confirmed"
    /\ sent # << >>
    /\ sent[Len(sent)].cnv_status = "trial_started"

\* C10: a pending af_start_trial row whose hour has passed leads to its
\* trial_started request (or to its removal by a cancel), as long as runs keep
\* being started, also when the runs find no new warehouse rows.
C10_SettledTrialIsConfirmed ==
    \A s \in Subs :
        Settled(s) ~> (SentTo(s, "trial_started") \/ ~HasRow(cachetab, s))

\* C11: at the end of every run that processed events the cache holds no row
\* whose event_time is more than a week back, whatever its event_name and
\* whatever became of its requests; and a row within the week leaves the cache
\* only by a cancel or by its confirmation.
C11_OldRowsArePruned ==
    /\ [](pc = "done" /\ events_df # << >> =>
             \A k \in 1..Len(cachetab) : cachetab[k].event_time >= now - Week)
    /\ [][\A k \in 1..Len(cachetab) :
             (/\ cachetab[k].event_time >= now - Week
              /\ cachetab[k] \notin Range(cachetab'))
             => pc \in {"cancelled", "confirmed"}]_vars

\* The rows a pass goes through.
PassLen(p) ==
    CASE p = "install"    -> Len(install)
      [] p = "activation" -> Len(activation)
      [] p = "new_trials" -> Len(trial)
      [] p = "cancelled"  -> Len(trial_cancelled)
      [] p = "confirmed"  -> Len(df)

\* C12: a requests_call in which every attempt failed returns to its pass with
\* the error, and the pass goes on to its next row; a pass is left only when
\* all its rows are done, and the passes before the confirmation are left for
\* the pass that follows, never for the end of the run.
C12_HttpFailureIsNotFatal ==
    [][/\ (/\ pc \in {"install", "activation", "confirmed"}
           /\ Len(sent') = Len(sent) + 1
           /\ result'.response # "ok")
          => (pc' = pc /\ i' = i + 1 /\ result'.error \in ErrorKinds)
       /\ (pc \in {"install", "activation", "new_trials", "cancelled", "confirmed"}
           /\ pc' # pc)
          => i > PassLen(pc)
       /\ pc' = "done" => pc \in {"fetch", "get_trials", "confirmed"}]_vars

C12_Witness ==
    /\ pc = "install"
    /\ Len(install) = 2
    /\ i = 2
    /\ result.response # "ok"
    /\ result.error \in ErrorKinds

Raised == "raise" \in Range(dwh_ops)

\* C13: a run in which the count command or the row query raises ends there:
\* from its start to its end the watermark file and the cache stay as they
\* were and no request is sent, and it returns no rows to process.
C13_WarehouseErrorEndsTheRun ==
    /\ [](Raised => (pc = "done" /\ sent = << >> /\ events_df = << >>))
    /\ [][(pc' = "fetch" \/ Raised \/ Raised')
            => (/\ json_file' = json_file
                /\ cachetab' = cachetab
                /\ sent' = << >>)]_vars

C13_Witness ==
    /\ pc = "done"
    /\ dwh_ops = <<"count", "query", "raise">>
    /\ json_file < Len(warehouse)
    /\ json_file > 0
    /\ cachetab # << >>

\* C14: for a subscriber S with one af_start_trial row and af_subscribe rows
\* not older than it, a run that processed an af_subscribe row of S ends with
\* no cache row of S, and no trial_started request for S follows a
\* trial_converted request for S.
C14_ConversionRemovesTheTrial ==
    \A s \in Subs :
        (/\ Cardinality(RowsOf(s, "af_start_trial")) = 1
         /\ \A a \in RowsOf(s, "af_start_trial") :
               \A b \in RowsOf(s, "af_subscribe") :
                  warehouse[b].event_time >= warehouse[a].event_time)
        => /\ (pc = "done" /\ \E k \in 1..Len(activation) : activation[k].af_sub1 = s)
              => ~HasRow(cachetab, s)
           /\ \A a, b \in 1..Len(sent) :
                 (a < b /\ sent[a].cnv_id = s /\ sent[b].cnv_id = s)
                 => ~(/\ sent[a].cnv_status = "trial_converted"
                      /\ sent[b].cnv_status = "trial_started")

\* C15: after remove_trials_from_db(S) the table holds no row of S, of
\* whatever event_name, and the rows of every other subscriber are the rows it
\* held before, in their order.
C15_RemoveIsBySubscriberOnly ==
    pc = "removed" =>
        /\ \A k \in 1..Len(cachetab) : cachetab[k].af_sub1 # df[1]
        /\ \A s \in Subs \ {df[1]} :
              SelectSeq(cachetab, LAMBDA c : c.af_sub1 = s)
                 = SelectSeq(events_df, LAMBDA c : c.af_sub1 = s)

C15_Witness ==
    /\ pc = "removed"
    /\ df = <<"s1">>
    /\ \E k \in 1..Len(events_df) :
          events_df[k].af_sub1 = "s1" /\ events_df[k].event_name = "install"
    /\ \E k \in 1..Len(cachetab) : cachetab[k].af_sub1 = "s2"

\* The place of a position of main() in a run.
Rank(p) ==
    CASE p = "idle"       -> 0
      [] p = "fetch"      -> 1
      [] p = "install"    -> 2
      [] p = "activation" -> 3
      [] p = "new_trials" -> 4
      [] p = "cancelled"  -> 5
      [] p = "get_trials" -> 6
      [] p = "confirmed"  -> 7
      [] p = "done"       -> 8

Sends(status) ==
    /\ Len(sent') = Len(sent) + 1
    /\ sent'[Len(sent')].cnv_status = status

\* C16: a run goes through its passes in the order install, activation,
\* trial-start, trial-cancel, confirmation and never back: install requests are
\* sent in the first only, trial_converted requests in the second only, cache
\* rows are inserted in the third only and removed in the fourth and fifth
\* only, trial_started requests are sent in the fifth only; and a run that has
\* rows to process enters every one of the first four.
C16_PassesInFixedOrder ==
    [][/\ pc # "done" => Rank(pc') >= Rank(pc)
       /\ Sends("install") => (pc = "install" /\ pc' = "install")
       /\ Sends("trial_converted") => (pc = "activation" /\ pc' = "activation")
       /\ Sends("trial_started") => (pc = "confirmed" /\ pc' = "confirmed")
       /\ Len(sent') > Len(sent) => pc \in {"install", "activation", "confirmed"}
       /\ Len(cachetab') > Len(cachetab) => (pc = "new_trials" /\ pc' = "new_trials")
       /\ Len(cachetab') < Len(cachetab) => pc \in {"cancelled", "confirmed"}
       /\ (pc \in {"fetch", "install", "activation", "new_trials"}
           /\ pc' # pc /\ events_df' # << >>)
          => Rank(pc') = Rank(pc) + 1]_vars

\* the cancel pass has removed, in its turn, the row the trial-start pass inserted
C16_Witness ==
    /\ pc = "cancelled"
    /\ i = 2
    /\ Len(cachetab) = 0
    /\ Len(trial) = 1
    /\ Len(trial_cancelled) = 1

\* The requests a pass sends for the rows of one event_name, one per row.
RequestsFor(name, status, event) ==
    LET rows == SelectSeq(events_df, LAMBDA e : e.event_name = name)
    IN  [k \in 1..Len(rows) |-> Request(rows[k].af_sub1, status, event)]

SentWith(status) == SelectSeq(sent, LAMBDA m : m.cnv_status = status)

\* C17: when the install and activation passes of a run are over, the requests
\* sent with cnv_status install are one per install row of the batch, with the
\* row's af_sub1 and event1, those with cnv_status trial_converted one per
\* af_subscribe row, with the row's af_sub1 and event4, whatever the cache
\* holds; and the two passes leave the cache as it is.
C17_InstallAndActivationForwarded ==
    /\ [](Rank(pc) >= Rank("new_trials") /\ events_df # << >> =>
             /\ SentWith("install") = RequestsFor("install", "install", "event1")
             /\ SentWith("trial_converted")
                   = RequestsFor("af_subscribe", "trial_converted", "event4"))
    /\ [][(pc \in {"install", "activation"}) => cachetab' = cachetab]_vars

\* an install forwarded for a subscriber that has a cache row
C17_Witness ==
    /\ pc = "new_trials"
    /\ Len(SentWith("install")) = 1
    /\ HasRow(cachetab, SentWith("install")[1].cnv_id)

\* C18: requests_call sleeps once before every attempt after the first and
\* not after its last attempt: when it goes on to attempt k + 1 it has slept k
\* times, and when no attempt is left or it has returned it has slept once less
\* than it made attempts, RETRIES - 1 times when all attempts failed.
C18_SleepsOnlyBetweenAttempts ==
    /\ (call.pc = "loop" /\ ~LoopExhausted(call)) => call.slept = call.retry
    /\ (call.retry > 0 /\ (call.pc = "returned" \/ LoopExhausted(call)))
          => call.slept = call.retry - 1
    /\ (call.pc = "returned" /\ call.last # "ok") => call.slept = RETRIES - 1

\* C19: in the confirmation pass a call that returns an error leaves the cache
\* as it is and the pass goes on to its next subscriber; the pass changes the
\* cache only after a trial_started request for df[i] that returned no error,
\* and then no row of df[i] is left.
C19_RowRemovedOnlyWithoutError ==
    [][(pc = "confirmed" /\ i <= Len(df)) =>
          /\ Sends("trial_started")
          /\ sent'[Len(sent')].cnv_id = df[i]
          /\ result'.error # None => (cachetab' = cachetab /\ pc' = pc /\ i' = i + 1)
          /\ cachetab' # cachetab => result'.error = None
          /\ result'.error = None => ~HasRow(cachetab', df[i])]_vars

\* the first of two settled trials met an error: its row is in place and the
\* pass is at the second
C19_Witness ==
    /\ pc = "confirmed"
    /\ Len(df) = 2
    /\ i = 2
    /\ result.error # None
    /\ HasRow(cachetab, df[1])

\* C20: whenever the endpoint answers the trial_started request for a
\* subscriber (requests_call returns a response of a successful attempt, the
\* first or a later one), the run removes that subscriber's cache row, so that
\* no later run sends the request again.
C20_AnsweredConfirmationRemovesRow ==
    [][(pc = "confirmed" /\ i <= Len(df) /\ result'.response = "ok")
          => ~HasRow(cachetab', df[i])]_vars

=============================================================================
